---- MODULE Spec2Model ----
(***************************************************************************)
(* Model of the question-generation worker (src/worker/worker.py).         *)
(*                                                                         *)
(* One run is one invocation of handler(event, context).  A run is cut     *)
(* into steps at its blocking calls: the request check, the set-up, one    *)
(* iteration of the chunk loop (model call + enumeration of the response   *)
(* with its inserts), the status update and the summary step.              *)
(*                                                                         *)
(* Text is represented by its extent: the document is a length, a chunk    *)
(* is the slice <<start, len>> of it, a string built from pieces is the    *)
(* sequence of its slices.  A question string is the label <<d, c, j>>:    *)
(* the j-th element of the response to chunk c of document d.              *)
(* External collaborators (S3, Discord, MySQL) are assumed not to fail;    *)
(* the language-model client fails in the ways handler distinguishes.      *)
(***************************************************************************)
EXTENDS Integers, Sequences, FiniteSets, TLC

\* ---- bounds of the model ------------------------------------------------
MaxChunks == 3
MaxPairs == 3

\* ---- program constants --------------------------------------------------
CHUNK_SIZE == 1100
FREE_PLAN_QUIZ_QUESTION_NUM == 5
PREV_QUESTIONS_POP_LEN == 6
SUMMARY_CHUNK_PREFIX == 600
SUMMARY_INPUT_LIMIT == 2000

FREE == "FREE"
PRO == "PRO"
\* a subscription_plan string that is neither FREE nor PRO
BASIC == "BASIC"
\* placeholder for the value of a key the body does not carry
Absent == "<absent>"

UNPROCESSED == "UNPROCESSED"
PROCESSED == "PROCESSED"
COMPLETELY_FAILED == "COMPLETELY_FAILED"
PARTIAL_SUCCESS == "PARTIAL_SUCCESS"

INVALID_JSON_FORMAT == "INVALID_LLM_JSON_RESPONSE_FORMAT"
GENERAL == "GENERAL"

QUESTION_TASK == "Question Generation"
SUMMARY_TASK == "Summary Generation"

\* the two handler invocations (db_pk of the document each one processes)
Runs == {1, 2}
RequiredKeys == {"s3_key", "db_pk", "subscription_plan"}

VARIABLES
    event,          \* event[r]: the request body: keys present, subscription_plan
    s3_object,      \* s3_object[r]: length of the stored document text
    s3_client,      \* s3_client[r]: number of get_object calls of run r
    pc,             \* pc[r]: position of run r in handler
    chunks,         \* chunks[r]: list of chunk slices
    chunk_idx,      \* chunk_idx[r]: 1-based index of the next chunk of the loop
    free_plan_question_expose_count,
    total_generated_question_count,
    success_at_least_once,
    failed_at_least_once,
    prev_questions,
    question,       \* question[d]: rows of table question with document_id d, in insert order
    document,       \* document[d]: row d of table document: status, summary
    db_manager,     \* db_manager[r]: connection of run r: "none", "open", "closed"
    discord,        \* discord[r]: reports sent by run r's DiscordClient
    llm_calls,      \* llm_calls[r]: predict_json calls of run r, in order
    outcomes,       \* outcomes[r]: history: the branch each chunk iteration ended in
    summary_outcome \* summary_outcome[r]: history: how the summary call ended

vars == <<event, s3_object, s3_client, pc, chunks, chunk_idx,
          free_plan_question_expose_count, total_generated_question_count,
          success_at_least_once, failed_at_least_once, prev_questions,
          question, document, db_manager, discord, llm_calls, outcomes,
          summary_outcome>>

\* ---- pure helpers -------------------------------------------------------
Min(a, b) == IF a < b THEN a ELSE b

RECURSIVE SumLen(_)
SumLen(slices) ==
    IF slices = <<>> THEN 0
    ELSE Head(slices)[2] + SumLen(Tail(slices))

\* mutant of Chunker: only full slices are kept, the short tail is lost
RECURSIVE ChunkerDropsTail(_, _)
ChunkerDropsTail(len, i) ==
    IF i + CHUNK_SIZE > len THEN <<>>
    ELSE <<<<i, CHUNK_SIZE>>>> \o ChunkerDropsTail(len, i + CHUNK_SIZE)

\* for i in range(0, len(content), CHUNK_SIZE): chunks.append(content[i:i+CHUNK_SIZE])
RECURSIVE Chunker(_, _)
Chunker(len, i) ==
    IF i >= len THEN <<>>
    ELSE <<<<i, Min(CHUNK_SIZE, len - i)>>>> \o Chunker(len, i + CHUNK_SIZE)

\* mutant of Scope: the loop's locals kept as module-level globals of the process
SharedScope(r) == 1

\* the handler's locals live in the frame of the invocation that owns them
Scope(r) == r

\* mutant of AppendPrev: the eviction is missing
AppendPrevNoEvict(window, q) == Append(window, q)

\* prev_questions.append(question); if len(prev_questions) == 6: prev_questions.pop(0)
AppendPrev(window, q) ==
    LET w == Append(window, q)
    IN  IF Len(w) = PREV_QUESTIONS_POP_LEN THEN Tail(w) ELSE w

\* mutant of DeliveredCount: ">" where the code has ">="
DeliveredCountOffByOne(plan, count) ==
    IF plan = FREE
    THEN IF count > FREE_PLAN_QUIZ_QUESTION_NUM THEN 0 ELSE 1
    ELSE 1

\* delivered_count of the plan branch (plan is FREE or PRO)
DeliveredCount(plan, count) ==
    IF plan = FREE
    THEN IF count >= FREE_PLAN_QUIZ_QUESTION_NUM THEN 0 ELSE 1
    ELSE 1

\* mutant of NextExposeCount: the counter is advanced whatever the plan
NextExposeCountAnyPlan(plan, count) ==
    IF count < FREE_PLAN_QUIZ_QUESTION_NUM THEN count + 1 ELSE count

\* mutant of NextExposeCount: the increment sits outside the cap test
NextExposeCountUncapped(plan, count) ==
    IF plan = FREE THEN count + 1 ELSE count

\* free_plan_question_expose_count after the plan branch (plan is FREE or PRO)
NextExposeCount(plan, count) ==
    IF plan = FREE /\ count < FREE_PLAN_QUIZ_QUESTION_NUM THEN count + 1 ELSE count

\* for q_set in resp_dict: ... ; st.raised: an exception left the loop body.
\* q_sets[j] = TRUE: element j carries "question" and "answer".
RECURSIVE Enumerate(_, _, _, _, _, _)
Enumerate(q_sets, j, plan, d, c, st) ==
    IF j > Len(q_sets) THEN st
    ELSE IF ~q_sets[j] THEN [st EXCEPT !.raised = TRUE]
    ELSE
        LET st1 == [st EXCEPT !.prev_questions = AppendPrev(@, <<d, c, j>>),
                              !.total = @ + 1]
            row == [question |-> <<d, c, j>>, document_id |-> d,
                    delivered_count |-> DeliveredCount(plan, st.free)]
        IN  IF plan \notin {FREE, PRO}
            THEN [st1 EXCEPT !.raised = TRUE]
            ELSE Enumerate(q_sets, j + 1, plan, d, c,
                     [st1 EXCEPT !.free = NextExposeCount(plan, @),
                                 !.rows = Append(@, row)])

\* mutant of DeriveStatus: the failed flag is tested before the success flag
DeriveStatusFailedFirst(success, failed) ==
    IF failed THEN PARTIAL_SUCCESS
    ELSE IF ~success THEN COMPLETELY_FAILED
    ELSE PROCESSED

\* mutant of DeriveStatus: the branch of a run without success writes nothing
DeriveStatusOmitsFailed(success, failed) ==
    IF ~success THEN UNPROCESSED
    ELSE IF failed THEN PARTIAL_SUCCESS
    ELSE PROCESSED

\* the status written after the loop
DeriveStatus(success, failed) ==
    IF ~success THEN COMPLETELY_FAILED
    ELSE IF failed THEN PARTIAL_SUCCESS
    ELSE PROCESSED

\* mutant of ReturnsAfterStatus: the early return is missing
NeverReturnsAfterStatus(success) == FALSE

\* COMPLETELY_FAILED returns right after its commit
ReturnsAfterStatus(success) == ~success

\* mutant of SummaryInput: the break is missing
RECURSIVE SummaryInputNoBreak(_, _, _)
SummaryInputNoBreak(cs, i, acc) ==
    IF i > Len(cs) THEN acc
    ELSE SummaryInputNoBreak(cs, i + 1,
             Append(acc, <<cs[i][1], Min(cs[i][2], SUMMARY_CHUNK_PREFIX)>>))

\* summary_input += chunk[:600]; if len(summary_input) > 2000: break
RECURSIVE SummaryInput(_, _, _)
SummaryInput(cs, i, acc) ==
    IF i > Len(cs) THEN acc
    ELSE LET acc1 == Append(acc, <<cs[i][1], Min(cs[i][2], SUMMARY_CHUNK_PREFIX)>>)
         IN  IF SumLen(acc1) > SUMMARY_INPUT_LIMIT THEN acc1
             ELSE SummaryInput(cs, i + 1, acc1)

\* ---- inputs -------------------------------------------------------------
RECURSIVE BoolSeqs(_)
BoolSeqs(n) ==
    IF n = 0 THEN {<<>>}
    ELSE LET S == BoolSeqs(n - 1)
         IN  S \cup {Append(s, b) : s \in {t \in S : Len(t) = n - 1}, b \in BOOLEAN}

\* what predict_json does on a question prompt
Responses == [kind : {"InvalidLLMJsonResponseError", "Exception"}, q_sets : {<<>>}]
             \cup [kind : {"json"}, q_sets : BoolSeqs(MaxPairs)]

\* the responses the two-run specification draws from: MaxPairs elements,
\* all well-formed, or all but the last one
ConcResponses ==
    { [kind |-> "json", q_sets |-> [j \in 1..MaxPairs |-> TRUE]],
      [kind |-> "json", q_sets |-> [j \in 1..MaxPairs |-> j < MaxPairs]] }

Bodies ==
    { [keys |-> k, subscription_plan |-> p] :
        k \in SUBSET RequiredKeys, p \in {FREE, PRO, BASIC, Absent} }

ValidBody(b) == (b.subscription_plan = Absent) <=> ("subscription_plan" \notin b.keys)

ContentLens ==
    {0} \cup {c * CHUNK_SIZE : c \in 1..MaxChunks}
        \cup {c * CHUNK_SIZE - 500 : c \in 1..MaxChunks}

\* the document lengths of the text specification: every length up to one
\* character past MaxChunks + 2 full chunks
TextLens == 0..((MaxChunks + 2) * CHUNK_SIZE + 1)

\* the text specification's response: one well-formed pair
TextResponses == { [kind |-> "json", q_sets |-> <<TRUE>>] }

\* ---- initial states -----------------------------------------------------
InitRuns(active, bodies, lens) ==
    /\ \E b \in [active -> {x \in bodies : ValidBody(x)}] :
           event = [r \in Runs |-> IF r \in active THEN b[r]
                                   ELSE [keys |-> {}, subscription_plan |-> Absent]]
    /\ \E l \in [active -> lens] :
           s3_object = [r \in Runs |-> IF r \in active THEN l[r] ELSE 0]
    /\ s3_client = [r \in Runs |-> 0]
    /\ pc = [r \in Runs |-> IF r \in active THEN "invoked" ELSE "idle"]
    /\ chunks = [r \in Runs |-> <<>>]
    /\ chunk_idx = [r \in Runs |-> 1]
    /\ free_plan_question_expose_count = [r \in Runs |-> 0]
    /\ total_generated_question_count = [r \in Runs |-> 0]
    /\ success_at_least_once = [r \in Runs |-> FALSE]
    /\ failed_at_least_once = [r \in Runs |-> FALSE]
    /\ prev_questions = [r \in Runs |-> <<>>]
    /\ question = [d \in Runs |-> <<>>]
    /\ document = [d \in Runs |-> [status |-> UNPROCESSED, summary |-> FALSE]]
    /\ db_manager = [r \in Runs |-> "none"]
    /\ discord = [r \in Runs |-> <<>>]
    /\ llm_calls = [r \in Runs |-> <<>>]
    /\ outcomes = [r \in Runs |-> <<>>]
    /\ summary_outcome = [r \in Runs |-> "none"]

Init == InitRuns({1}, Bodies, ContentLens)

ConcInit ==
    InitRuns(Runs,
             {b \in Bodies : b.keys = RequiredKeys /\ b.subscription_plan \in {FREE, PRO}},
             {c * CHUNK_SIZE : c \in 1..MaxChunks})

\* the fair specification's documents: whole chunks, none to MaxChunks
FairInit == InitRuns({1}, Bodies, {c * CHUNK_SIZE : c \in 0..MaxChunks})

TextInit ==
    InitRuns({1}, {[keys |-> RequiredKeys, subscription_plan |-> PRO]}, TextLens)

\* ---- actions ------------------------------------------------------------
\* mutant of MissingField: the test forgets subscription_plan
MissingFieldPlanUnchecked(body) ==
    "s3_key" \notin body.keys \/ "db_pk" \notin body.keys

\* "s3_key" not in body or "db_pk" not in body or "subscription_plan" not in body
MissingField(body) ==
    \/ "s3_key" \notin body.keys
    \/ "db_pk" \notin body.keys
    \/ "subscription_plan" \notin body.keys

\* worker.py 20-23: a required key is missing
RaiseMissingField(r) ==
    /\ pc[r] = "invoked"
    /\ MissingField(event[r])
    /\ pc' = [pc EXCEPT ![r] = "raised"]
    /\ UNCHANGED <<event, s3_object, s3_client, chunks, chunk_idx,
                   free_plan_question_expose_count, total_generated_question_count,
                   success_at_least_once, failed_at_least_once, prev_questions,
                   question, document, db_manager, discord, llm_calls, outcomes,
                   summary_outcome>>

\* worker.py 25-52: clients, document fetch, chunking, the loop's locals
Start(r) ==
    /\ pc[r] = "invoked"
    /\ ~MissingField(event[r])
    /\ db_manager' = [db_manager EXCEPT ![r] = "open"]
    /\ s3_client' = [s3_client EXCEPT ![r] = @ + 1]
    /\ chunks' = [chunks EXCEPT ![r] = Chunker(s3_object[r], 0)]
    /\ chunk_idx' = [chunk_idx EXCEPT ![r] = 1]
    /\ free_plan_question_expose_count' =
           [free_plan_question_expose_count EXCEPT ![Scope(r)] = 0]
    /\ total_generated_question_count' =
           [total_generated_question_count EXCEPT ![Scope(r)] = 0]
    /\ success_at_least_once' = [success_at_least_once EXCEPT ![Scope(r)] = FALSE]
    /\ failed_at_least_once' = [failed_at_least_once EXCEPT ![Scope(r)] = FALSE]
    /\ prev_questions' = [prev_questions EXCEPT ![Scope(r)] = <<>>]
    /\ pc' = [pc EXCEPT ![r] = "chunk_loop"]
    /\ UNCHANGED <<event, s3_object, question, document, discord, llm_calls,
                   outcomes, summary_outcome>>

\* mutant of InLoop: a failed chunk ends the loop (break for continue)
InLoopUntilFailure(r) ==
    /\ pc[r] = "chunk_loop"
    /\ chunk_idx[r] <= Len(chunks[r])
    /\ ~failed_at_least_once[Scope(r)]

\* for chunk in chunks: a chunk is left
InLoop(r) == pc[r] = "chunk_loop" /\ chunk_idx[r] <= Len(chunks[r])

\* mutant of QuestionCall: the hint is rendered once, before the loop
QuestionCallHintHoisted(r) ==
    [task |-> QUESTION_TASK, chunk |-> chunk_idx[r],
     note |-> <<chunks[r][chunk_idx[r]]>>,
     prev_questions |-> <<>>]

\* the prompt of one iteration: the chunk and the newline-joined window
QuestionCall(r) ==
    [task |-> QUESTION_TASK, chunk |-> chunk_idx[r],
     note |-> <<chunks[r][chunk_idx[r]]>>,
     prev_questions |-> prev_questions[Scope(r)]]

\* mutant of Report: the raw response is never passed on
ReportWithoutResponse(task, error_type, c, with_response) ==
    [task |-> task, error_type |-> error_type, chunk |-> c,
     llm_response |-> FALSE]

\* discord_client.report_llm_error(task, error_type, document_content, llm_response)
Report(task, error_type, c, with_response) ==
    [task |-> task, error_type |-> error_type, chunk |-> c,
     llm_response |-> with_response]

\* worker.py 53-68: predict_json raises InvalidLLMJsonResponseError
ChunkInvalidJson(r, resps) ==
    /\ InLoop(r)
    /\ \E resp \in resps : resp.kind = "InvalidLLMJsonResponseError"
    /\ llm_calls' = [llm_calls EXCEPT ![r] = Append(@, QuestionCall(r))]
    /\ discord' = [discord EXCEPT ![r] =
           Append(@, Report(QUESTION_TASK, INVALID_JSON_FORMAT, chunk_idx[r], TRUE))]
    /\ failed_at_least_once' = [failed_at_least_once EXCEPT ![Scope(r)] = TRUE]
    /\ outcomes' = [outcomes EXCEPT ![r] = Append(@, "InvalidLLMOutputFormat")]
    /\ chunk_idx' = [chunk_idx EXCEPT ![r] = @ + 1]
    /\ UNCHANGED <<event, s3_object, s3_client, pc, chunks, free_plan_question_expose_count,
                   total_generated_question_count, success_at_least_once,
                   prev_questions, question, document, db_manager, summary_outcome>>

\* worker.py 53-57, 69-78: predict_json raises any other exception
ChunkLLMFailure(r, resps) ==
    /\ InLoop(r)
    /\ \E resp \in resps : resp.kind = "Exception"
    /\ llm_calls' = [llm_calls EXCEPT ![r] = Append(@, QuestionCall(r))]
    /\ discord' = [discord EXCEPT ![r] =
           Append(@, Report(QUESTION_TASK, GENERAL, chunk_idx[r], FALSE))]
    /\ failed_at_least_once' = [failed_at_least_once EXCEPT ![Scope(r)] = TRUE]
    /\ outcomes' = [outcomes EXCEPT ![r] = Append(@, "GeneralFailure")]
    /\ chunk_idx' = [chunk_idx EXCEPT ![r] = @ + 1]
    /\ UNCHANGED <<event, s3_object, s3_client, pc, chunks, free_plan_question_expose_count,
                   total_generated_question_count, success_at_least_once,
                   prev_questions, question, document, db_manager, summary_outcome>>

\* worker.py 53-57, 80-121: predict_json returns; the response is enumerated
ChunkEnumerate(r, resps) ==
    /\ InLoop(r)
    /\ \E resp \in resps :
        /\ resp.kind = "json"
        /\ LET s == Scope(r)
               st0 == [prev_questions |-> prev_questions[s],
                       free |-> free_plan_question_expose_count[s],
                       total |-> total_generated_question_count[s],
                       rows |-> <<>>, raised |-> FALSE]
               st == Enumerate(resp.q_sets, 1, event[r].subscription_plan,
                               r, chunk_idx[r], st0)
           IN  /\ llm_calls' = [llm_calls EXCEPT ![r] = Append(@, QuestionCall(r))]
               /\ prev_questions' = [prev_questions EXCEPT ![s] = st.prev_questions]
               /\ free_plan_question_expose_count' =
                      [free_plan_question_expose_count EXCEPT ![s] = st.free]
               /\ total_generated_question_count' =
                      [total_generated_question_count EXCEPT ![s] = st.total]
               /\ question' = [question EXCEPT ![r] = @ \o st.rows]
               /\ IF st.raised
                  THEN /\ discord' = [discord EXCEPT ![r] =
                              Append(@, Report(QUESTION_TASK, GENERAL, chunk_idx[r], FALSE))]
                       /\ failed_at_least_once' =
                              [failed_at_least_once EXCEPT ![s] = TRUE]
                       /\ outcomes' = [outcomes EXCEPT ![r] = Append(@, "GeneralFailure")]
                       /\ UNCHANGED success_at_least_once
                  ELSE /\ success_at_least_once' =
                              [success_at_least_once EXCEPT ![s] = TRUE]
                       /\ outcomes' = [outcomes EXCEPT ![r] = Append(@, "Success")]
                       /\ UNCHANGED <<discord, failed_at_least_once>>
    /\ chunk_idx' = [chunk_idx EXCEPT ![r] = @ + 1]
    /\ UNCHANGED <<event, s3_object, s3_client, pc, chunks, document, db_manager,
                   summary_outcome>>

\* the for loop is over
LoopDone(r) == pc[r] = "chunk_loop" /\ ~InLoop(r)

\* worker.py 122-138: the status update, its commit, and the early return
PersistStatus(r) ==
    /\ LoopDone(r)
    /\ document' = [document EXCEPT ![r].status =
           DeriveStatus(success_at_least_once[Scope(r)], failed_at_least_once[Scope(r)])]
    /\ pc' = [pc EXCEPT ![r] =
           IF ReturnsAfterStatus(success_at_least_once[Scope(r)])
           THEN "returned" ELSE "summary"]
    /\ UNCHANGED <<event, s3_object, s3_client, chunks, chunk_idx,
                   free_plan_question_expose_count, total_generated_question_count,
                   success_at_least_once, failed_at_least_once, prev_questions,
                   question, db_manager, discord, llm_calls, outcomes, summary_outcome>>

\* mutant of SummaryReport: the report keeps the question loop's task tag
SummaryReportQuestionTag(how) ==
    IF how = "InvalidLLMJsonResponseError"
    THEN [task |-> QUESTION_TASK, error_type |-> INVALID_JSON_FORMAT, chunk |-> 0,
          llm_response |-> TRUE]
    ELSE [task |-> QUESTION_TASK, error_type |-> GENERAL, chunk |-> 0,
          llm_response |-> FALSE]

\* the report of the except branch the summary call ends in
SummaryReport(how) ==
    IF how = "InvalidLLMJsonResponseError"
    THEN Report(SUMMARY_TASK, INVALID_JSON_FORMAT, 0, TRUE)
    ELSE Report(SUMMARY_TASK, GENERAL, 0, FALSE)

SummaryCall(r) ==
    [task |-> SUMMARY_TASK, chunk |-> 0,
     note |-> SummaryInput(chunks[r], 1, <<>>),
     prev_questions |-> <<>>]

\* worker.py 140-168: the summary call raises InvalidLLMJsonResponseError
SummaryInvalidJson(r) ==
    /\ pc[r] = "summary"
    /\ llm_calls' = [llm_calls EXCEPT ![r] = Append(@, SummaryCall(r))]
    /\ discord' = [discord EXCEPT ![r] =
           Append(@, SummaryReport("InvalidLLMJsonResponseError"))]
    /\ summary_outcome' = [summary_outcome EXCEPT ![r] = "InvalidLLMJsonResponseError"]
    /\ pc' = [pc EXCEPT ![r] = "returned"]
    /\ UNCHANGED <<event, s3_object, s3_client, chunks, chunk_idx,
                   free_plan_question_expose_count, total_generated_question_count,
                   success_at_least_once, failed_at_least_once, prev_questions,
                   question, document, db_manager, outcomes>>

\* worker.py 140-158, 169-177: the summary call raises another exception, or
\* the response has no "summary" key
SummaryFailure(r) ==
    /\ pc[r] = "summary"
    /\ \E how \in {"Exception", "KeyError"} :
           /\ summary_outcome' = [summary_outcome EXCEPT ![r] = how]
           /\ discord' = [discord EXCEPT ![r] = Append(@, SummaryReport(how))]
    /\ llm_calls' = [llm_calls EXCEPT ![r] = Append(@, SummaryCall(r))]
    /\ pc' = [pc EXCEPT ![r] = "returned"]
    /\ UNCHANGED <<event, s3_object, s3_client, chunks, chunk_idx,
                   free_plan_question_expose_count, total_generated_question_count,
                   success_at_least_once, failed_at_least_once, prev_questions,
                   question, document, db_manager, outcomes>>

\* worker.py 140-158, 179-184: the summary is stored, the connection closed
SummarySuccess(r) ==
    /\ pc[r] = "summary"
    /\ llm_calls' = [llm_calls EXCEPT ![r] = Append(@, SummaryCall(r))]
    /\ summary_outcome' = [summary_outcome EXCEPT ![r] = "summary"]
    /\ document' = [document EXCEPT ![r].summary = TRUE]
    /\ db_manager' = [db_manager EXCEPT ![r] = "closed"]
    /\ pc' = [pc EXCEPT ![r] = "returned"]
    /\ UNCHANGED <<event, s3_object, s3_client, chunks, chunk_idx,
                   free_plan_question_expose_count, total_generated_question_count,
                   success_at_least_once, failed_at_least_once, prev_questions,
                   question, discord, outcomes>>

\* ---- specifications -----------------------------------------------------
\* one invocation
Next ==
    \/ RaiseMissingField(1)
    \/ Start(1)
    \/ ChunkInvalidJson(1, Responses)
    \/ ChunkLLMFailure(1, Responses)
    \/ ChunkEnumerate(1, Responses)
    \/ PersistStatus(1)
    \/ SummaryInvalidJson(1)
    \/ SummaryFailure(1)
    \/ SummarySuccess(1)

Spec == Init /\ [][Next]_vars

\* one invocation that is never suspended for ever: handler is sequential
\* code whose blocking calls return, so a step that can be taken is taken
FairSpec == FairInit /\ [][Next]_vars /\ WF_vars(Next)

\* two invocations for different documents, interleaved step by step
ConcNext ==
    \E r \in Runs :
        \/ Start(r)
        \/ ChunkEnumerate(r, ConcResponses)
        \/ PersistStatus(r)
        \/ SummaryInvalidJson(r)
        \/ SummaryFailure(r)
        \/ SummarySuccess(r)

ConcSpec == ConcInit /\ [][ConcNext]_vars

\* one invocation over documents of every length, with a fixed response
TextNext ==
    \/ Start(1)
    \/ ChunkEnumerate(1, TextResponses)
    \/ PersistStatus(1)
    \/ SummaryInvalidJson(1)
    \/ SummaryFailure(1)
    \/ SummarySuccess(1)

TextSpec == TextInit /\ [][TextNext]_vars

\* ---- properties ---------------------------------------------------------
Started(r) == pc[r] \in {"chunk_loop", "summary", "returned"} /\ db_manager[r] # "none"
StatusPersisted(r) == db_manager[r] # "none" /\ pc[r] \in {"summary", "returned"}
Plan(r) == event[r].subscription_plan

HasSuccess(os) == \E i \in 1..Len(os) : os[i] = "Success"
HasFailure(os) ==
    \E i \in 1..Len(os) : os[i] \in {"InvalidLLMOutputFormat", "GeneralFailure"}

Flags(rows) == [i \in 1..Len(rows) |-> rows[i].delivered_count]
Questions(rows) == [i \in 1..Len(rows) |-> rows[i].question]
CallsOf(r, task) == {i \in 1..Len(llm_calls[r]) : llm_calls[r][i].task = task}
ReportsOf(r, task) == {i \in 1..Len(discord[r]) : discord[r][i].task = task}
SummaryFailures == {"InvalidLLMJsonResponseError", "Exception", "KeyError"}

\* C1: once the chunk loop is over and the status is written, the status is
\* COMPLETELY_FAILED if no chunk ended in Success (the empty run included),
\* PARTIAL_SUCCESS if some chunk ended in Success and some chunk in a failure,
\* PROCESSED if there are chunks and all of them ended in Success; every
\* chunk has exactly one outcome.
C1_StatusFromOutcomes ==
    \A r \in Runs : StatusPersisted(r) =>
        /\ Len(outcomes[r]) = Len(chunks[r])
        /\ ~HasSuccess(outcomes[r]) => document[r].status = COMPLETELY_FAILED
        /\ HasSuccess(outcomes[r]) /\ HasFailure(outcomes[r])
               => document[r].status = PARTIAL_SUCCESS
        /\ HasSuccess(outcomes[r]) /\ ~HasFailure(outcomes[r])
               => document[r].status = PROCESSED

C1_Witness ==
    /\ pc[1] = "returned"
    /\ outcomes[1] = <<"InvalidLLMOutputFormat", "Success", "GeneralFailure">>
    /\ document[1].status = PARTIAL_SUCCESS

\* C2: under the FREE plan the rows of the run carry delivered_count 1 on the
\* first min(N, 5) of them, in insert order, and 0 on the others, N being the
\* number of questions generated so far; three chunks of two pairs each give
\* the flags 1,1,1,1,1,0.
C2_FreePlanFlags ==
    \A r \in Runs : (Started(r) /\ Plan(r) = FREE) =>
        /\ Len(question[r]) = total_generated_question_count[Scope(r)]
        /\ \A i \in 1..Len(question[r]) :
               question[r][i].delivered_count =
                   (IF i <= FREE_PLAN_QUIZ_QUESTION_NUM THEN 1 ELSE 0)
        /\ Questions(question[r]) =
               <<<<r, 1, 1>>, <<r, 1, 2>>, <<r, 2, 1>>, <<r, 2, 2>>, <<r, 3, 1>>, <<r, 3, 2>>>>
               => Flags(question[r]) = <<1, 1, 1, 1, 1, 0>>

C2_Witness ==
    /\ Plan(1) = FREE
    /\ s3_object[1] = 3 * CHUNK_SIZE
    /\ outcomes[1] = <<"Success", "Success", "Success">>
    /\ Questions(question[1]) =
           <<<<1, 1, 1>>, <<1, 1, 2>>, <<1, 2, 1>>, <<1, 2, 2>>, <<1, 3, 1>>, <<1, 3, 2>>>>
    /\ Flags(question[1]) = <<1, 1, 1, 1, 1, 0>>
    /\ document[1].status = PROCESSED

\* C3 (as claimed): a chunk that ended in a failure outcome has no row in
\* table question, so a run whose chunks all failed has no rows at all.
C3_FailedChunkPersistsNothing ==
    \A r \in Runs : \A c \in 1..Len(outcomes[r]) :
        outcomes[r][c] # "Success" =>
            \A i \in 1..Len(question[r]) : question[r][i].question[2] # c

\* C4 (as claimed): once a delivery decision was reached under a plan that is
\* neither FREE nor PRO, the run has ended in an uncaught exception: it is
\* not in the chunk loop any more, wrote no status and made no summary call.
C4_BadPlanAborts ==
    \A r \in Runs :
        (db_manager[r] # "none" /\ Plan(r) \notin {FREE, PRO}
            /\ total_generated_question_count[Scope(r)] > 0)
        => /\ pc[r] = "raised"
           /\ document[r].status = UNPROCESSED
           /\ CallsOf(r, SUMMARY_TASK) = {}

\* C5 (as claimed): a run that has returned after writing the status, whatever
\* the status, made exactly one summary call.
C5_SummaryAlwaysAttempted ==
    \A r \in Runs :
        (pc[r] = "returned" /\ document[r].status # UNPROCESSED)
        => Cardinality(CallsOf(r, SUMMARY_TASK)) = 1

\* C5 (amended): a run makes at most one summary call, and only after the
\* status is written; a returned run whose status is PARTIAL_SUCCESS or
\* PROCESSED made exactly one, as its last model call; a run whose status is
\* COMPLETELY_FAILED has returned without any.
C5_SummaryUnlessCompletelyFailed ==
    \A r \in Runs :
        /\ Cardinality(CallsOf(r, SUMMARY_TASK)) <= 1
        /\ CallsOf(r, SUMMARY_TASK) # {} =>
               /\ document[r].status \in {PARTIAL_SUCCESS, PROCESSED}
               /\ CallsOf(r, SUMMARY_TASK) = {Len(llm_calls[r])}
        /\ (pc[r] = "returned" /\ document[r].status \in {PARTIAL_SUCCESS, PROCESSED})
               => Cardinality(CallsOf(r, SUMMARY_TASK)) = 1
        /\ document[r].status = COMPLETELY_FAILED =>
               /\ pc[r] = "returned"
               /\ CallsOf(r, SUMMARY_TASK) = {}

C5_Witness ==
    /\ pc[1] = "returned"
    /\ document[1].status = PARTIAL_SUCCESS
    /\ Cardinality(CallsOf(1, SUMMARY_TASK)) = 1
    /\ Len(llm_calls[1]) = Len(chunks[1]) + 1

LastN(seq, n) ==
    IF Len(seq) <= n THEN seq ELSE SubSeq(seq, Len(seq) - n + 1, Len(seq))

\* C6 (as claimed): when seven questions have been appended in a run, the
\* window holds questions 2 to 7 in their order, the first one being gone.
C6_WindowKeepsSix ==
    \A r \in Runs :
        (Started(r) /\ Plan(r) \in {FREE, PRO}
            /\ total_generated_question_count[Scope(r)] = 7
            /\ Len(question[r]) = 7)
        => prev_questions[Scope(r)] = SubSeq(Questions(question[r]), 2, 7)

\* C7: a step in which the summary call fails (not decodable, any other
\* exception, no "summary" key) leaves both tables as they were, so the
\* status written before stays and no summary is stored, sends one report,
\* the only one of the run tagged Summary Generation, and returns; when all
\* chunks succeeded and the call was not decodable the status is PROCESSED.
C7_SummaryFailureFrame ==
    [][\A r \in Runs :
        (summary_outcome[r] = "none" /\ summary_outcome'[r] \in SummaryFailures)
        => /\ document' = document
           /\ question' = question
           /\ document'[r].status \in {PARTIAL_SUCCESS, PROCESSED}
           /\ document'[r].summary = FALSE
           /\ Len(discord'[r]) = Len(discord[r]) + 1
           /\ Cardinality(ReportsOf(r, SUMMARY_TASK)') = 1
           /\ pc'[r] = "returned"
           /\ (summary_outcome'[r] = "InvalidLLMJsonResponseError"
                   /\ ~HasFailure(outcomes[r]))
              => (document'[r].status = PROCESSED
                     /\ discord'[r][Len(discord'[r])].error_type = INVALID_JSON_FORMAT)
      ]_vars

C7_Witness ==
    /\ pc[1] = "returned"
    /\ outcomes[1] = <<"Success", "Success">>
    /\ summary_outcome[1] = "InvalidLLMJsonResponseError"
    /\ document[1] = [status |-> PROCESSED, summary |-> FALSE]
    /\ discord[1] = <<[task |-> SUMMARY_TASK, error_type |-> INVALID_JSON_FORMAT,
                       chunk |-> 0, llm_response |-> TRUE]>>

\* C8: under the PRO plan every generated question is a row with
\* delivered_count 1, however many there are, and the free-plan counter
\* stays at 0.
C8_ProPlanFlags ==
    \A r \in Runs : (Started(r) /\ Plan(r) = PRO) =>
        /\ Len(question[r]) = total_generated_question_count[Scope(r)]
        /\ \A i \in 1..Len(question[r]) : question[r][i].delivered_count = 1
        /\ free_plan_question_expose_count[Scope(r)] = 0

C8_Witness ==
    /\ Plan(1) = PRO
    /\ pc[1] = "returned"
    /\ Len(question[1]) > FREE_PLAN_QUIZ_QUESTION_NUM + 1
    /\ \A i \in 1..Len(question[1]) : question[1][i].delivered_count = 1
    /\ free_plan_question_expose_count[Scope(1)] = 0

\* C9 (as claimed): a run that has ended, by return or by exception, does
\* not leave its database connection open.
C9_ConnectionReleased ==
    \A r \in Runs : pc[r] \in {"returned", "raised"} => db_manager[r] # "open"

\* C10: with two runs interleaved, the window and the counter of a run, the
\* hint of each of its question calls and the flags of its rows are what the
\* run's own questions alone determine: the window is the last questions of
\* the run's own rows, the hint of the call for chunk c the last questions of
\* its own rows of the chunks before c, the counter the number of its own
\* rows delivered under FREE, and the flag of its i-th row depends on i and
\* its plan only.
C10_RunsIsolated ==
    \A r \in Runs : Started(r) =>
        LET own == question[r]
            qs == Questions(own)
            keep == PREV_QUESTIONS_POP_LEN - 1
            Before(c) == SelectSeq(qs, LAMBDA q : q[2] < c)
        IN  /\ \A i \in 1..Len(own) : own[i].document_id = r /\ qs[i][1] = r
            /\ total_generated_question_count[Scope(r)] = Len(own)
            /\ prev_questions[Scope(r)] = LastN(qs, keep)
            /\ free_plan_question_expose_count[Scope(r)] =
                   (IF Plan(r) = FREE
                    THEN Min(Len(own), FREE_PLAN_QUIZ_QUESTION_NUM) ELSE 0)
            /\ \A i \in 1..Len(own) :
                   own[i].delivered_count =
                       (IF Plan(r) = PRO \/ i <= FREE_PLAN_QUIZ_QUESTION_NUM
                        THEN 1 ELSE 0)
            /\ \A k \in CallsOf(r, QUESTION_TASK) :
                   llm_calls[r][k].prev_questions =
                       LastN(Before(llm_calls[r][k].chunk), keep)

C10_Witness ==
    /\ \A r \in Runs :
        /\ pc[r] = "chunk_loop"
        /\ chunk_idx[r] = 3
        /\ Plan(r) = FREE
        /\ Len(question[r]) > FREE_PLAN_QUIZ_QUESTION_NUM
        /\ free_plan_question_expose_count[Scope(r)] = FREE_PLAN_QUIZ_QUESTION_NUM
        /\ Len(prev_questions[Scope(r)]) = PREV_QUESTIONS_POP_LEN - 1

\* C11: the chunks of a document of length T are slices that follow one
\* another from offset 0 to T without gap or overlap (their concatenation is
\* the text), none is empty, all but the last have length CHUNK_SIZE, and
\* the empty document has no chunk.
C11_ChunkerPartition ==
    \A r \in Runs : Started(r) =>
        LET cs == chunks[r]
            T == s3_object[r]
        IN  /\ (T = 0) <=> (cs = <<>>)
            /\ cs # <<>> => cs[1][1] = 0 /\ cs[Len(cs)][1] + cs[Len(cs)][2] = T
            /\ \A i \in 1..Len(cs) - 1 :
                   /\ cs[i + 1][1] = cs[i][1] + cs[i][2]
                   /\ cs[i][2] = CHUNK_SIZE
            /\ \A i \in 1..Len(cs) : cs[i][2] > 0 /\ cs[i][2] <= CHUNK_SIZE
            /\ SumLen(cs) = T

C11_Witness ==
    /\ pc[1] = "chunk_loop"
    /\ s3_object[1] = 2 * CHUNK_SIZE + 1
    /\ chunks[1] = <<<<0, CHUNK_SIZE>>, <<CHUNK_SIZE, CHUNK_SIZE>>, <<2 * CHUNK_SIZE, 1>>>>

\* C12: a run whose request body lacks s3_key, db_pk or subscription_plan
\* only ever raises: it fetches nothing from storage, opens no database
\* connection, writes no row, makes no model call and sends no report.
C12_MissingFieldRaisesFirst ==
    \A r \in Runs : (pc[r] # "idle" /\ event[r].keys # RequiredKeys) =>
        /\ pc[r] \in {"invoked", "raised"}
        /\ s3_client[r] = 0
        /\ chunks[r] = <<>>
        /\ db_manager[r] = "none"
        /\ llm_calls[r] = <<>>
        /\ discord[r] = <<>>
        /\ question[r] = <<>>
        /\ document[r] = [status |-> UNPROCESSED, summary |-> FALSE]

C12_Witness ==
    /\ pc[1] = "raised"
    /\ event[1].keys = {"s3_key", "db_pk"}
    /\ s3_object[1] > 0
    /\ s3_client[1] = 0
    /\ db_manager[1] = "none"

QuestionCalls(r) == SelectSeq(llm_calls[r], LAMBDA c : c.task = QUESTION_TASK)
IsFailure(o) == o \in {"InvalidLLMOutputFormat", "GeneralFailure"}

\* C13: in a run with a complete request the question calls are the first
\* model calls, one per chunk handled so far, the k-th for chunk k with that
\* chunk as its note; the run never ends in an exception, whatever the
\* chunks' outcomes, and once the loop is over every chunk had its call and
\* its outcome: a failed chunk neither stops the loop nor is tried again.
C13_OneCallPerChunk ==
    \A r \in Runs : (event[r].keys = RequiredKeys /\ pc[r] # "invoked") =>
        LET qc == QuestionCalls(r)
        IN  /\ pc[r] # "raised"
            /\ Len(qc) = chunk_idx[r] - 1
            /\ Len(qc) = Len(outcomes[r])
            /\ Len(qc) <= Len(chunks[r])
            /\ \A k \in 1..Len(qc) :
                   /\ llm_calls[r][k] = qc[k]
                   /\ qc[k].chunk = k
                   /\ qc[k].note = <<chunks[r][k]>>
            /\ pc[r] \in {"summary", "returned"} => Len(qc) = Len(chunks[r])
            /\ (pc[r] = "chunk_loop" /\ Len(qc) < Len(chunks[r])) => InLoop(r)

C13_Witness ==
    /\ pc[1] = "returned"
    /\ outcomes[1] = <<"GeneralFailure", "InvalidLLMOutputFormat", "GeneralFailure">>
    /\ Questions(question[1]) = <<<<1, 1, 1>>>>
    /\ Len(QuestionCalls(1)) = 3
    /\ \A k \in 1..3 : llm_calls[1][k].chunk = k

\* C14: a run with a complete request and plan FREE or PRO eventually has
\* its document status written, and a status that has been written is never
\* written again by any later step of the run.
C14_StatusWrittenOnce ==
    /\ \A r \in Runs :
           (pc[r] = "invoked" /\ event[r].keys = RequiredKeys
               /\ Plan(r) \in {FREE, PRO})
           ~> (document[r].status # UNPROCESSED)
    /\ [][\A r \in Runs :
              document[r].status # UNPROCESSED
              => document'[r].status = document[r].status]_vars

C14_Witness ==
    /\ pc[1] = "returned"
    /\ Plan(1) = FREE
    /\ document[1] = [status |-> PARTIAL_SUCCESS, summary |-> TRUE]
    /\ summary_outcome[1] = "summary"

NewRows(old, new) == SubSeq(new, Len(old) + 1, Len(new))
Delivered(rows) == Cardinality({i \in 1..Len(rows) : rows[i].delivered_count = 1})

\* C15: free_plan_question_expose_count is always between 0 and the FREE cap
\* of 5; one question moves it by 1 exactly when the plan is FREE and the
\* question is marked delivered, and not at all otherwise; over a step of a
\* run it never decreases and grows by the number of rows the step inserted
\* with delivered_count 1 under FREE.
C15_ExposeCountBounded ==
    /\ [](\A r \in Runs :
            /\ free_plan_question_expose_count[Scope(r)] \in 0..FREE_PLAN_QUIZ_QUESTION_NUM
            /\ \A plan \in {FREE, PRO} :
                   LET c == free_plan_question_expose_count[Scope(r)]
                   IN  NextExposeCount(plan, c) - c =
                           (IF plan = FREE /\ DeliveredCount(plan, c) = 1 THEN 1 ELSE 0))
    /\ [][\A r \in Runs :
              LET c == free_plan_question_expose_count[Scope(r)]
                  d == free_plan_question_expose_count'[Scope(r)]
                  new == NewRows(question[r], question'[r])
              IN  /\ d >= c
                  /\ d - c = (IF Plan(r) = FREE THEN Delivered(new) ELSE 0)]_vars

C15_Witness ==
    /\ Plan(1) = FREE
    /\ free_plan_question_expose_count[Scope(1)] = FREE_PLAN_QUIZ_QUESTION_NUM
    /\ Len(question[1]) = 7
    /\ question[1][6].delivered_count = 0
    /\ question[1][7].delivered_count = 0

\* C16: in every state the window of a run holds at most 6 questions, and
\* so did every hint rendered into a question prompt.
C16_WindowAtMostSix ==
    \A r \in Runs :
        /\ Len(prev_questions[Scope(r)]) <= 6
        /\ \A k \in 1..Len(llm_calls[r]) : Len(llm_calls[r][k].prev_questions) <= 6

C16_Witness ==
    /\ total_generated_question_count[Scope(1)] >= 7
    /\ Len(prev_questions[Scope(1)]) = PREV_QUESTIONS_POP_LEN - 1
    /\ \E k \in 1..Len(llm_calls[1]) :
           /\ llm_calls[1][k].task = QUESTION_TASK
           /\ Len(llm_calls[1][k].prev_questions) = PREV_QUESTIONS_POP_LEN - 1

QuestionReports(r) == SelectSeq(discord[r], LAMBDA m : m.task = QUESTION_TASK)
FailedChunks(os) ==
    SelectSeq([i \in 1..Len(os) |-> i], LAMBDA i : IsFailure(os[i]))

\* C17: the reports of a run with task Question Generation are, in order,
\* one per chunk that ended in a failure and none for a Success chunk; the
\* report of a chunk has error type INVALID_LLM_JSON_RESPONSE_FORMAT and the
\* raw response exactly when the chunk failed because the response was not
\* decodable, and GENERAL without a response otherwise.  Two chunks of which
\* only the first is not decodable give that one report; a returned run of
\* two failed chunks sent two reports in all.
C17_OneReportPerFailedChunk ==
    \A r \in Runs :
        LET qr == QuestionReports(r)
            fc == FailedChunks(outcomes[r])
        IN  /\ Len(qr) = Len(fc)
            /\ \A k \in 1..Len(qr) :
                   /\ qr[k].chunk = fc[k]
                   /\ qr[k].error_type =
                          (IF outcomes[r][fc[k]] = "InvalidLLMOutputFormat"
                           THEN INVALID_JSON_FORMAT ELSE GENERAL)
                   /\ qr[k].llm_response = (outcomes[r][fc[k]] = "InvalidLLMOutputFormat")
            /\ outcomes[r] = <<"InvalidLLMOutputFormat", "Success">> =>
                   qr = <<[task |-> QUESTION_TASK, error_type |-> INVALID_JSON_FORMAT,
                           chunk |-> 1, llm_response |-> TRUE]>>
            /\ (pc[r] = "returned" /\ Len(outcomes[r]) = 2 /\ ~HasSuccess(outcomes[r]))
                   => Len(discord[r]) = 2

C17_Witness ==
    /\ pc[1] = "summary"
    /\ outcomes[1] = <<"InvalidLLMOutputFormat", "Success">>
    /\ document[1].status = PARTIAL_SUCCESS
    /\ question[1] # <<>>
    /\ discord[1] = <<[task |-> QUESTION_TASK, error_type |-> INVALID_JSON_FORMAT,
                       chunk |-> 1, llm_response |-> TRUE]>>

\* q comes before p in chunk order, then in response order
Earlier(q, p) == q[2] < p[2] \/ (q[2] = p[2] /\ q[3] < p[3])

\* C18: in the step that makes the question call for chunk c, the hint is
\* the window as it stands after the questions of the chunks before c: under
\* FREE or PRO the last questions of the rows present, all of them rows of
\* chunks before c; the rows the step adds are rows of chunk c, and the
\* rows of a run are in chunk order, then response order.
C18_HintFollowsEarlierChunks ==
    [][\A r \in Runs :
        (Len(llm_calls'[r]) = Len(llm_calls[r]) + 1
            /\ llm_calls'[r][Len(llm_calls'[r])].task = QUESTION_TASK)
        => LET call == llm_calls'[r][Len(llm_calls'[r])]
               old == Questions(question[r])
               new == Questions(NewRows(question[r], question'[r]))
               all == Questions(question'[r])
           IN  /\ call.chunk = Len(llm_calls[r]) + 1
               /\ call.prev_questions = prev_questions[Scope(r)]
               /\ Plan(r) \in {FREE, PRO} =>
                      call.prev_questions = LastN(old, PREV_QUESTIONS_POP_LEN - 1)
               /\ \A i \in 1..Len(old) : old[i][2] < call.chunk
               /\ \A i \in 1..Len(new) : new[i] = <<r, call.chunk, i>>
               /\ \A i \in 1..Len(all) - 1 : Earlier(all[i], all[i + 1])
      ]_vars

C18_Witness ==
    /\ Len(llm_calls[1]) >= 3
    /\ llm_calls[1][3].task = QUESTION_TASK
    /\ llm_calls[1][3].prev_questions =
           <<<<1, 1, 2>>, <<1, 1, 3>>, <<1, 2, 1>>, <<1, 2, 2>>, <<1, 2, 3>>>>
    /\ Len(question[1]) >= 7

Prefix600(cs, k) ==
    [i \in 1..k |-> <<cs[i][1], Min(cs[i][2], SUMMARY_CHUNK_PREFIX)>>]

\* C19: the note of the summary call is made of the first min(600, length)
\* characters of chunks 1..k in order, k being the first chunk at which the
\* accumulated length exceeds 2000, or the last chunk if none does; its
\* length is at most 2600.
C19_SummaryInputPrefixes ==
    \A r \in Runs : \A n \in CallsOf(r, SUMMARY_TASK) :
        LET cs == chunks[r]
            note == llm_calls[r][n].note
            over == {k \in 1..Len(cs) : SumLen(Prefix600(cs, k)) > SUMMARY_INPUT_LIMIT}
            last == IF over = {} THEN Len(cs)
                    ELSE CHOOSE k \in over : \A m \in over : k <= m
        IN  /\ note = Prefix600(cs, last)
            /\ SumLen(note) <= SUMMARY_INPUT_LIMIT + SUMMARY_CHUNK_PREFIX
            /\ Len(note) < Len(cs) => SumLen(note) > SUMMARY_INPUT_LIMIT
            /\ Len(note) > 1 => SumLen(SubSeq(note, 1, Len(note) - 1)) <= SUMMARY_INPUT_LIMIT

C19_Witness ==
    /\ pc[1] = "returned"
    /\ Len(chunks[1]) = 6
    /\ CallsOf(1, SUMMARY_TASK) = {7}
    /\ llm_calls[1][7].note =
           <<<<0, 600>>, <<1100, 600>>, <<2200, 600>>, <<3300, 600>>>>

\* C20 (as claimed): a step in which a chunk of a FREE or PRO run ends in a
\* failure leaves the run's window and free-plan counter as they were.
C20_FailedChunkLeavesState ==
    [][\A r \in Runs :
        (Plan(r) \in {FREE, PRO}
            /\ Len(outcomes'[r]) = Len(outcomes[r]) + 1
            /\ IsFailure(outcomes'[r][Len(outcomes'[r])]))
        => /\ prev_questions'[Scope(r)] = prev_questions[Scope(r)]
           /\ free_plan_question_expose_count'[Scope(r)] =
                  free_plan_question_expose_count[Scope(r)]
      ]_vars

====
